---- MODULE Spec2Model ----
(***************************************************************************)
(* The snake game of src/snake.py as a state machine: the main menu, the   *)
(* game loop (key handling, the move tick, the pause sub-loop), the single *)
(* save slot, the hand-over to name entry at game over and the leaderboard *)
(* file.                                                                   *)
(*                                                                         *)
(* Positions are pixel pairs <<x, y>>, multiples of CELL_SIZE, as in the   *)
(* source.  A JSON document is modelled by what json.dump / json.load do   *)
(* to the values: a tuple is written as a JSON array (read back as a list, *)
(* which is not equal to a tuple) and None is written as null.             *)
(***************************************************************************)
EXTENDS Integers, Sequences, FiniteSets, TLC

(* ------------------------------ bounds -------------------------------- *)

\* The board, in cells: screen.get_size() is GridW*CELL_SIZE by GridH*CELL_SIZE.
GridW == 7
GridH == 1
\* The width of the wider display of the runs that follow the obstacles.
WideGridW == 8
\* Skin indexes run over 0..MaxSkinIdx (the source ships 5 skins of each kind).
MaxSkinIdx == 1
\* Skin selections made in one run of the process.
MaxSkinPicks == 1
\* Move ticks processed in one run of the process.
MaxTicks == 3
\* The same budget for the runs that follow an effect from its collection to
\* its expiry.
MaxEffectTicks == 5
\* MOVE_EVENT firings consumed without a tick in one session.
MaxDropped == 1
\* Ticks an effect lasts: POWERUP_TYPES[t]["duration"].  The source sets
\* FPS * 5 = 75; the model counts a shorter effect so that expiry is reached.
PowerupDuration == 3
\* Length of the raw names handed to save_score, and the scores handed to it.
MaxNameLen == 2
MaxBoardScore == 1
\* An obstacle is attempted when the score is a positive multiple of this.
\* The source uses 20 (score % 20 == 0); the model uses a shorter period so
\* that obstacles appear within MaxTicks.
ObstacleEvery == 2
\* The least value of max_obstacles.  The source uses 10
\* (max(10, cells * 5 // 1000)); the model uses a cap that a board of a few
\* cells can reach.
MinObstacleCap == 1

(* ------------------------------- state -------------------------------- *)

VARIABLES
    pc,              \* "MENU" | "LOOP" | "PAUSE_MENU" | "NAME_ENTRY"
    running, paused, \* game_loop's flags
    body, direction, snake_skin,   \* snake.body, snake.direction, snake.skin_idx
    food_pos, food_skin,           \* food.position, food.skin_idx
    obstacles,       \* sequence of obstacle positions
    powerups,        \* sequence of [pos, type]
    score, powerup_active, powerup_timer,
    interval,        \* the interval MOVE_EVENT is set to (pygame.time.set_timer)
    slot,            \* SAVE_FILE: <<>> when absent, <<document>> when present
    current_snake_skin, current_fruit_skin,  \* the menu's globals
    screen,          \* screen.get_size(): the display's size in pixels
    ticks,           \* move ticks processed so far (bounded by MaxTicks)
    picks,           \* skin selections made so far (bounded by MaxSkinPicks)
    lastDir,         \* the direction the latest tick of this session moved in
    run,             \* ticks since a fresh start with nothing else handled, or -1
    music_paused,    \* pygame.mixer.music is paused
    leaderboard_file, \* LEADERBOARD_FILE: <<>> when absent, <<content>> when present
    escaped,         \* K_ESCAPE was handled by the main loop in this session
    dropped          \* MOVE_EVENT firings of this session consumed without a tick

snakeVars == <<body, direction, snake_skin>>
fieldVars == <<food_pos, food_skin, obstacles, powerups>>
effectVars == <<score, powerup_active, powerup_timer>>
sessionVars == <<snakeVars, fieldVars, effectVars>>
menuVars == <<current_snake_skin, current_fruit_skin, screen>>
vars == <<pc, running, paused, sessionVars, interval, slot, menuVars,
          ticks, picks, lastDir, run, music_paused, leaderboard_file,
          escaped, dropped>>

(* ------------------------- program constants -------------------------- *)

CELL_SIZE == 20
FPS == 15
MinBoostInterval == 50

PowerupTypes == {"speed_boost", "slow_down"}
POWERUP_TYPES(t) == [duration |-> PowerupDuration]

None == "None"
JsonNull == "null"

width == screen[1]
height == screen[2]
grid_width == width \div CELL_SIZE
grid_height == height \div CELL_SIZE
start_pos == <<(grid_width \div 2) * CELL_SIZE, (grid_height \div 2) * CELL_SIZE>>
max_obstacles ==
    LET n == (grid_width * grid_height * 5) \div 1000
    IN  IF n > MinObstacleCap THEN n ELSE MinObstacleCap

Max(a, b) == IF a > b THEN a ELSE b

\* difficulty = {"speed": FPS}
speed == FPS
initial_game_speed_ms == 1000 \div speed
\* Faulty variant: the speed_boost interval without its floor.
BoostIntervalNoFloor == 1000 \div (speed + 10)
BoostInterval == Max(MinBoostInterval, 1000 \div (speed + 10))
SlowInterval == 1000 \div Max(1, speed - 5)

\* The values random_position(width, height) can return.
random_position ==
    { <<cx * CELL_SIZE, cy * CELL_SIZE>> :
        cx \in 0..((width - CELL_SIZE) \div CELL_SIZE),
        cy \in 0..((height - CELL_SIZE) \div CELL_SIZE) }

RIGHT == <<CELL_SIZE, 0>>
LEFT == <<0 - CELL_SIZE, 0>>
UP == <<0, 0 - CELL_SIZE>>
DOWN == <<0, CELL_SIZE>>
Directions == {RIGHT, LEFT, UP, DOWN}
NoDir == <<0, 0>>
Neg(d) == <<0 - d[1], 0 - d[2]>>

Range(s) == { s[i] : i \in 1..Len(s) }
PositionsOf(ps) == { ps[i].pos : i \in 1..Len(ps) }
Front(s) == SubSeq(s, 1, Len(s) - 1)
RemoveAt(s, i) == SubSeq(s, 1, i - 1) \o SubSeq(s, i + 1, Len(s))

(* --------------------------- the save document ------------------------ *)

\* json.dump of a tuple: a JSON array.
JArr(p) == [arr |-> p]
\* tuple(x) of a list read from JSON.
ToTuple(j) == j.arr

\* dict.get(key, default).
Get(d, k, default) == IF k \in DOMAIN d THEN d[k] ELSE default

\* A JSON number, where it stands in a place that save_game fills with an array.
JNum(n) == [num |-> n]
\* Whether tuple(j) succeeds: j was read from a JSON array.
IsArray(j) == "arr" \in DOMAIN j

\* The text of a SAVE_FILE that json.load rejects with JSONDecodeError.
Garbled == [garbled |-> TRUE]
Parses(text) == "garbled" \notin DOMAIN text

\* Faulty variant: a snapshot that keeps only the head of the snake.
save_game_state_head_only ==
    [ snake |-> <<body[1]>>,
      direction |-> direction,
      food_pos |-> food_pos,
      food_skin_idx |-> food_skin,
      obstacles |-> obstacles,
      powerups |-> powerups,
      score |-> score,
      powerup_active |-> powerup_active,
      powerup_timer |-> powerup_timer,
      snake_skin_idx |-> snake_skin ]

\* save_game_state: the snapshot dictionary (Python values).
save_game_state ==
    [ snake |-> body,
      direction |-> direction,
      food_pos |-> food_pos,
      food_skin_idx |-> food_skin,
      obstacles |-> obstacles,
      powerups |-> powerups,
      score |-> score,
      powerup_active |-> powerup_active,
      powerup_timer |-> powerup_timer,
      snake_skin_idx |-> snake_skin ]

\* save_game: json.dump(state) into SAVE_FILE, then read by json.load.
JsonDump(st) ==
    [ snake |-> [i \in 1..Len(st.snake) |-> JArr(st.snake[i])],
      direction |-> JArr(st.direction),
      food_pos |-> JArr(st.food_pos),
      food_skin_idx |-> st.food_skin_idx,
      obstacles |-> [i \in 1..Len(st.obstacles) |-> JArr(st.obstacles[i])],
      powerups |-> [i \in 1..Len(st.powerups) |->
                      [pos |-> JArr(st.powerups[i].pos), type |-> st.powerups[i].type]],
      score |-> st.score,
      powerup_active |-> IF st.powerup_active = None THEN JsonNull
                         ELSE st.powerup_active,
      powerup_timer |-> st.powerup_timer,
      snake_skin_idx |-> st.snake_skin_idx ]

\* Faulty variant: load_game_state that reads the snake's skin from the food's field.
load_game_state_skin_slip(doc) ==
    [ body |-> [i \in 1..Len(doc.snake) |-> ToTuple(doc.snake[i])],
      direction |-> ToTuple(doc.direction),
      snake_skin |-> doc.food_skin_idx,
      food_pos |-> ToTuple(doc.food_pos),
      food_skin |-> doc.food_skin_idx,
      obstacles |-> [i \in 1..Len(doc.obstacles) |-> ToTuple(doc.obstacles[i])],
      powerups |-> [i \in 1..Len(doc.powerups) |->
                      [pos |-> ToTuple(doc.powerups[i].pos),
                       type |-> doc.powerups[i].type]] ]

\* load_game_state: the entities rebuilt from a document.
load_game_state(doc) ==
    [ body |-> [i \in 1..Len(doc.snake) |-> ToTuple(doc.snake[i])],
      direction |-> ToTuple(doc.direction),
      snake_skin |-> Get(doc, "snake_skin_idx", 0),
      food_pos |-> ToTuple(doc.food_pos),
      food_skin |-> Get(doc, "food_skin_idx", 0),
      obstacles |-> [i \in 1..Len(doc.obstacles) |-> ToTuple(doc.obstacles[i])],
      powerups |-> [i \in 1..Len(doc.powerups) |->
                      [pos |-> ToTuple(doc.powerups[i].pos),
                       type |-> doc.powerups[i].type]] ]

\* loaded_state.get("powerup_active", None): json.load reads null as None.
LoadedActive(doc) ==
    LET a == Get(doc, "powerup_active", JsonNull)
    IN  IF a = JsonNull THEN None ELSE a

\* Faulty variant: load_game that leaves a file it cannot parse in place.
load_game_keeps_file(file) ==
    IF file = <<>> THEN [state |-> <<>>, file |-> <<>>]
    ELSE IF Parses(file[1]) THEN [state |-> file, file |-> file]
    ELSE [state |-> <<>>, file |-> file]

\* load_game: what it returns (<<>> for None, <<document>> otherwise) and
\* SAVE_FILE as it leaves it; a file that fails to parse is removed.
load_game(file) ==
    IF file = <<>> THEN [state |-> <<>>, file |-> <<>>]
    ELSE IF Parses(file[1]) THEN [state |-> file, file |-> file]
    ELSE [state |-> <<>>, file |-> <<>>]

\* "if loaded_state:": None and an empty JSON object are false.
Truthy(state) == state # <<>> /\ DOMAIN state[1] # {}

\* The keys load_game_state reads with state[...].
RequiredKeys == {"snake", "direction", "food_pos", "obstacles", "powerups"}

\* Whether load_game_state returns True: no KeyError and no TypeError.
LoadSucceeds(doc) ==
    /\ RequiredKeys \subseteq DOMAIN doc
    /\ IsArray(doc.direction)
    /\ IsArray(doc.food_pos)

\* The interval set after a successful load, given the interval in force.
IntervalAfterLoad(active, current) ==
    IF active = "speed_boost" THEN BoostInterval
    ELSE IF active = "slow_down" THEN SlowInterval
    ELSE current

(* -------------------------------- Init -------------------------------- *)

\* The locals of game_loop do not exist outside a session.
NoSession ==
    /\ running = FALSE /\ paused = FALSE
    /\ body = <<>> /\ direction = NoDir /\ snake_skin = 0
    /\ food_pos = NoDir /\ food_skin = 0
    /\ obstacles = <<>> /\ powerups = <<>>
    /\ score = 0 /\ powerup_active = None /\ powerup_timer = 0
    /\ lastDir = NoDir /\ run = -1
    /\ escaped = FALSE /\ dropped = 0

\* The process as it reaches main_menu(): the music was started when the
\* module was loaded, no save and no leaderboard file yet.
Init ==
    /\ pc = "MENU"
    /\ screen = <<GridW * CELL_SIZE, GridH * CELL_SIZE>>
    /\ NoSession
    /\ interval = 0
    /\ slot = <<>>
    /\ current_snake_skin = 0 /\ current_fruit_skin = 0
    /\ ticks = 0
    /\ picks = 0
    /\ music_paused = FALSE
    /\ leaderboard_file = <<>>

(* ------------------------- starting a session ------------------------- *)

\* game_loop's locals are gone once it returns.
Discard ==
    /\ running' = FALSE /\ paused' = FALSE
    /\ body' = <<>> /\ direction' = NoDir /\ snake_skin' = 0
    /\ food_pos' = NoDir /\ food_skin' = 0
    /\ obstacles' = <<>> /\ powerups' = <<>>
    /\ score' = 0 /\ powerup_active' = None /\ powerup_timer' = 0
    /\ lastDir' = NoDir /\ run' = -1
    /\ escaped' = FALSE /\ dropped' = 0

\* Snake(start_pos, snake_skin_idx), Food(random_position(..), fruit_skin_idx)
\* and the empty session around them; f is the position drawn for the food.
Fresh(f) ==
    /\ body' = <<start_pos>> /\ direction' = RIGHT
    /\ snake_skin' = current_snake_skin
    /\ food_pos' = f /\ food_skin' = current_fruit_skin
    /\ obstacles' = <<>> /\ powerups' = <<>>
    /\ score' = 0 /\ powerup_active' = None /\ powerup_timer' = 0

\* A successful load_game_state(doc, ...) followed by the caller's restoring
\* of score, active effect, timer and tick interval; iv is the interval in
\* force when the document is loaded.
Restore(doc, iv) ==
    LET st == load_game_state(doc)
        active == LoadedActive(doc)
    IN  /\ body' = st.body /\ direction' = st.direction
        /\ snake_skin' = st.snake_skin
        /\ food_pos' = st.food_pos /\ food_skin' = st.food_skin
        /\ obstacles' = st.obstacles /\ powerups' = st.powerups
        /\ score' = Get(doc, "score", 0)
        /\ powerup_active' = active
        /\ powerup_timer' = Get(doc, "powerup_timer", 0)
        /\ interval' = IntervalAfterLoad(active, iv)

\* The body of "if loaded_state:" at both call sites: the document restored,
\* or everything re-created when load_game_state returns False.
LoadInto(doc, iv) ==
    IF LoadSucceeds(doc)
    THEN Restore(doc, iv)
    ELSE /\ \E f \in random_position : Fresh(f)
         /\ interval' = initial_game_speed_ms

\* The head of game_loop, up to its while loop: a new session, replaced by
\* the saved one when load_game() finds a document.
EnterGameLoop ==
    /\ pc' = "LOOP" /\ running' = TRUE /\ paused' = FALSE
    /\ LET loaded == load_game(slot)
       IN  /\ slot' = loaded.file
           /\ IF ~Truthy(loaded.state)
              THEN /\ \E f \in random_position : Fresh(f)
                   /\ interval' = initial_game_speed_ms
                   /\ run' = 0
              ELSE /\ LoadInto(loaded.state[1], initial_game_speed_ms)
                   /\ run' = IF LoadSucceeds(loaded.state[1]) THEN -1 ELSE 0
    /\ lastDir' = NoDir
    /\ escaped' = FALSE /\ dropped' = 0
    /\ UNCHANGED <<menuVars, ticks, picks, music_paused, leaderboard_file>>

(* ------------------------------ main menu ----------------------------- *)

StartGame ==
    /\ pc = "MENU"
    /\ EnterGameLoop

SelectSnakeSkin(i) ==
    /\ pc = "MENU"
    /\ i # current_snake_skin
    /\ picks < MaxSkinPicks
    /\ picks' = picks + 1
    /\ current_snake_skin' = i
    /\ UNCHANGED <<pc, running, paused, sessionVars, interval, slot,
                   current_fruit_skin, screen, ticks, lastDir, run, music_paused,
                   leaderboard_file, escaped, dropped>>

SelectFruitSkin(i) ==
    /\ pc = "MENU"
    /\ i # current_fruit_skin
    /\ picks < MaxSkinPicks
    /\ picks' = picks + 1
    /\ current_fruit_skin' = i
    /\ UNCHANGED <<pc, running, paused, sessionVars, interval, slot,
                   current_snake_skin, screen, ticks, lastDir, run, music_paused,
                   leaderboard_file, escaped, dropped>>

(* ---------------------------- key handling ---------------------------- *)

\* Faulty variant: the movement branches without the check of the reverse of UP.
DirectionAfterKeyNoCheck(k, d) ==
    IF k \in {"K_UP", "K_w"} /\ d # DOWN THEN UP
    ELSE IF k \in {"K_DOWN", "K_s"} THEN DOWN
    ELSE IF k \in {"K_LEFT", "K_a"} /\ d # RIGHT THEN LEFT
    ELSE IF k \in {"K_RIGHT", "K_d"} /\ d # LEFT THEN RIGHT
    ELSE d

\* Whether one of the four movement branches of the KEYDOWN chain is taken.
Turns(k, d) ==
    \/ k \in {"K_UP", "K_w"} /\ d # DOWN
    \/ k \in {"K_DOWN", "K_s"} /\ d # UP
    \/ k \in {"K_LEFT", "K_a"} /\ d # RIGHT
    \/ k \in {"K_RIGHT", "K_d"} /\ d # LEFT

\* snake.direction after the movement branches.
DirectionAfterKey(k, d) ==
    IF k \in {"K_UP", "K_w"} /\ d # DOWN THEN UP
    ELSE IF k \in {"K_DOWN", "K_s"} /\ d # UP THEN DOWN
    ELSE IF k \in {"K_LEFT", "K_a"} /\ d # RIGHT THEN LEFT
    ELSE IF k \in {"K_RIGHT", "K_d"} /\ d # LEFT THEN RIGHT
    ELSE d

\* The save branch is reached only when no movement branch was taken.
SavesOn(k, d) == ~Turns(k, d) /\ k = "K_s"
LoadsOn(k, d) == ~Turns(k, d) /\ k = "K_l"

\* One KEYDOWN event in the main loop.
KeyDown(k) ==
    /\ pc = "LOOP"
    /\ IF ~paused /\ LoadsOn(k, direction) /\ Truthy(load_game(slot).state)
       THEN /\ LoadInto(slot[1], interval)
            /\ lastDir' = NoDir
            /\ UNCHANGED slot
       ELSE /\ direction' = IF paused THEN direction
                            ELSE DirectionAfterKey(k, direction)
            /\ slot' = IF ~paused /\ SavesOn(k, direction)
                       THEN <<JsonDump(save_game_state)>>
                       ELSE IF ~paused /\ LoadsOn(k, direction)
                       THEN load_game(slot).file
                       ELSE slot
            /\ UNCHANGED <<body, snake_skin, fieldVars, effectVars, interval,
                           lastDir>>
    /\ paused' = IF k = "K_p" THEN ~paused ELSE paused
    /\ music_paused' = IF k = "K_p" THEN ~paused ELSE music_paused
    /\ running' = IF k = "K_ESCAPE" THEN FALSE ELSE running
    /\ escaped' = (escaped \/ k = "K_ESCAPE")
    /\ run' = -1
    /\ UNCHANGED <<pc, menuVars, ticks, picks, leaderboard_file, dropped>>

\* The save key handled while save_game fails inside json.dump: open(.., "w")
\* has truncated SAVE_FILE, the exception is caught and the session goes on
\* with a file that holds no complete document.
SaveFails ==
    /\ pc = "LOOP" /\ ~paused
    /\ SavesOn("K_s", direction)
    /\ slot' = <<Garbled>>
    /\ run' = -1
    /\ UNCHANGED <<pc, running, paused, sessionVars, interval, menuVars, ticks,
                   picks, lastDir, music_paused, leaderboard_file, escaped,
                   dropped>>

\* A QUIT event in the main loop.
QuitEvent ==
    /\ pc = "LOOP" /\ running
    /\ running' = FALSE
    /\ run' = -1
    /\ UNCHANGED <<pc, paused, sessionVars, interval, slot, menuVars, ticks,
                   picks, lastDir, music_paused, leaderboard_file, escaped,
                   dropped>>

(* ----------------------------- the move tick -------------------------- *)

Add(p, d) == <<p[1] + d[1], p[2] + d[2]>>

\* Snake.move: a new head in front of the body.
Move(b, d) == <<Add(b[1], d)>> \o b

\* Faulty variant: shrink_tail that removes nothing.
ShrinkTailKeeps(b) == b

\* Snake.shrink_tail
ShrinkTail(b) == Front(b)

\* The three fatal checks on the body as moved, in the order of the source.
HitsWall(b) == ~(0 <= b[1][1] /\ b[1][1] < width /\ 0 <= b[1][2] /\ b[1][2] < height)
HitsSelf(b) == \E i \in 2..Len(b) : b[i] = b[1]
HitsObstacle(b, obs) == \E i \in 1..Len(obs) : obs[i] = b[1]
\* Faulty variant: the fatal checks without the obstacle check.
FatalNoObstacle(b, obs) == HitsWall(b) \/ HitsSelf(b)
\* Faulty variant: the checks of a tick without the wall.
FatalNoWall(b, obs) == HitsSelf(b) \/ HitsObstacle(b, obs)

Fatal(b, obs) == HitsWall(b) \/ HitsSelf(b) \/ HitsObstacle(b, obs)

\* Faulty variant: a powerup spawn that does not look at the snake.
PowerupSpawnsOverSnake(b, fp, obs, pus) ==
    {<<>>} \cup
    { <<[pos |-> c, type |-> t]>> :
        c \in random_position \ ({fp} \cup Range(obs) \cup PositionsOf(pus)),
        t \in PowerupTypes }

\* What the powerup spawn of an eat tick can append: nothing (the 20% draw
\* fails, or 100 draws all hit occupied cells) or one powerup on a free cell.
PowerupSpawns(b, fp, obs, pus) ==
    {<<>>} \cup
    { <<[pos |-> c, type |-> t]>> :
        c \in random_position \ (Range(b) \cup {fp} \cup Range(obs) \cup PositionsOf(pus)),
        t \in PowerupTypes }

\* Faulty variant: a respawn loop that forgets the on-field powerups.
FoodRespawnsOverPowerups(b, obs, pus) ==
    random_position \ (Range(b) \cup Range(obs))

\* The cells the food respawn loop can end on.
FoodRespawns(b, obs, pus) ==
    random_position \ (Range(b) \cup Range(obs) \cup PositionsOf(pus))

\* Faulty variant: the obstacle step without the test of len(obstacles).
ObstacleSpawnsUncapped(b, fp, obs, pus, sc) ==
    IF sc > 0 /\ sc % ObstacleEvery = 0
    THEN {<<>>} \cup
         { <<c>> : c \in random_position \
                     (Range(b) \cup {fp} \cup PositionsOf(pus) \cup Range(obs)) }
    ELSE {<<>>}

\* Faulty variant: the obstacle step without the test of the score.
ObstacleSpawnsAnyScore(b, fp, obs, pus, sc) ==
    IF Len(obs) < max_obstacles
    THEN {<<>>} \cup
         { <<c>> : c \in random_position \
                     (Range(b) \cup {fp} \cup PositionsOf(pus) \cup Range(obs)) }
    ELSE {<<>>}

\* What the obstacle step of an eat tick can append.
ObstacleSpawns(b, fp, obs, pus, sc) ==
    IF sc > 0 /\ sc % ObstacleEvery = 0 /\ Len(obs) < max_obstacles
    THEN {<<>>} \cup
         { <<c>> : c \in random_position \
                     (Range(b) \cup {fp} \cup PositionsOf(pus) \cup Range(obs)) }
    ELSE {<<>>}

\* Faulty variant: an eat that scores twice.
ScoreAfterEatTwice(sc) == sc + 2

\* score += 1
ScoreAfterEat(sc) == sc + 1

\* The interval a collected powerup sets.
IntervalFor(t, current) ==
    IF t = "speed_boost" THEN BoostInterval
    ELSE IF t = "slow_down" THEN SlowInterval
    ELSE current

\* Faulty variant: a collection that leaves an effect already active in place.
CollectKeepsEffect(head, pus, active, timer, iv) ==
    LET hits == { i \in 1..Len(pus) : pus[i].pos = head }
    IN  IF hits = {}
        THEN [powerups |-> pus, active |-> active, timer |-> timer, interval |-> iv]
        ELSE LET i == CHOOSE j \in hits : \A m \in hits : j <= m
             IN  IF active # None
                 THEN [powerups |-> RemoveAt(pus, i), active |-> active,
                       timer |-> timer, interval |-> iv]
                 ELSE [powerups |-> RemoveAt(pus, i),
                       active |-> pus[i].type,
                       timer |-> POWERUP_TYPES(pus[i].type).duration,
                       interval |-> IntervalFor(pus[i].type, iv)]

\* "Check for powerup collection": the first powerup under the head, if any.
Collect(head, pus, active, timer, iv) ==
    LET hits == { i \in 1..Len(pus) : pus[i].pos = head }
    IN  IF hits = {}
        THEN [powerups |-> pus, active |-> active, timer |-> timer, interval |-> iv]
        ELSE LET i == CHOOSE j \in hits : \A m \in hits : j <= m
             IN  [powerups |-> RemoveAt(pus, i),
                  active |-> pus[i].type,
                  timer |-> POWERUP_TYPES(pus[i].type).duration,
                  interval |-> IntervalFor(pus[i].type, iv)]

\* Faulty variant: an expiry that leaves the tick interval as it is.
DecayKeepsInterval(e) ==
    IF e.active # None
    THEN IF e.timer - 1 <= 0
         THEN [e EXCEPT !.timer = e.timer - 1, !.active = None]
         ELSE [e EXCEPT !.timer = e.timer - 1]
    ELSE e

\* Faulty variant: an expiry that waits for the timer to fall below zero.
DecayBelowZero(e) ==
    IF e.active # None
    THEN IF e.timer - 1 < 0
         THEN [e EXCEPT !.timer = e.timer - 1, !.active = None,
                        !.interval = initial_game_speed_ms]
         ELSE [e EXCEPT !.timer = e.timer - 1]
    ELSE e

\* "Manage active powerup timer"
Decay(e) ==
    IF e.active # None
    THEN IF e.timer - 1 <= 0
         THEN [e EXCEPT !.timer = e.timer - 1, !.active = None,
                        !.interval = initial_game_speed_ms]
         ELSE [e EXCEPT !.timer = e.timer - 1]
    ELSE e

\* The tail of a surviving tick: collection, then the timer.
Settle(b, pus) ==
    LET e == Decay(Collect(b[1], pus, powerup_active, powerup_timer, interval))
    IN  /\ body' = b
        /\ powerups' = e.powerups
        /\ powerup_active' = e.active
        /\ powerup_timer' = e.timer
        /\ interval' = e.interval

\* One MOVE_EVENT handled in the main loop, the process having a budget of
\* ticks.  When an eat tick finds no free cell for the food, the respawn loop
\* does not end and the tick has no successor state.
Tick(budget) ==
    /\ pc = "LOOP" /\ ~paused
    /\ ticks < budget
    /\ ticks' = ticks + 1
    /\ LET moved == Move(body, direction)
       IN  IF Fatal(moved, obstacles)
           THEN \* game_over(score); return
                /\ pc' = "NAME_ENTRY"
                /\ body' = moved
                /\ run' = -1
                /\ UNCHANGED <<powerups, powerup_active, powerup_timer, interval,
                               score, food_pos, obstacles>>
           ELSE IF moved[1] = food_pos
           THEN /\ score' = ScoreAfterEat(score)
                /\ \E pw \in PowerupSpawns(moved, food_pos, obstacles, powerups) :
                   \E fp \in FoodRespawns(moved, obstacles, powerups \o pw) :
                   \E ob \in ObstacleSpawns(moved, fp, obstacles, powerups \o pw, ScoreAfterEat(score)) :
                      /\ food_pos' = fp
                      /\ obstacles' = obstacles \o ob
                      /\ Settle(moved, powerups \o pw)
                /\ run' = -1
                /\ UNCHANGED pc
           ELSE /\ Settle(ShrinkTail(moved), powerups)
                /\ run' = IF run >= 0 THEN run + 1 ELSE -1
                /\ UNCHANGED <<pc, score, food_pos, obstacles>>
    /\ lastDir' = direction
    /\ UNCHANGED <<running, paused, direction, snake_skin, food_skin, slot, menuVars,
                   picks, music_paused, leaderboard_file, escaped, dropped>>

MoveEvent == Tick(MaxTicks)
MoveEventLong == Tick(MaxEffectTicks)

\* Faulty variant: a MOVE_EVENT delivered while paused that moves the snake.
DropMoveEventMoves ==
    /\ \/ pc = "LOOP" /\ paused
       \/ pc = "PAUSE_MENU"
    /\ dropped < MaxDropped
    /\ dropped' = dropped + 1
    /\ body' = ShrinkTail(Move(body, direction))
    /\ UNCHANGED <<pc, running, paused, direction, snake_skin, fieldVars,
                   effectVars, interval, slot, menuVars, ticks, picks, lastDir,
                   run, music_paused, leaderboard_file, escaped>>

\* A MOVE_EVENT delivered while paused: the main loop skips it ("and not
\* paused") and the pause sub-loop fetches it and has no branch for it.
DropMoveEvent ==
    /\ \/ pc = "LOOP" /\ paused
       \/ pc = "PAUSE_MENU"
    /\ dropped < MaxDropped
    /\ dropped' = dropped + 1
    /\ UNCHANGED <<pc, running, paused, sessionVars, interval, slot, menuVars,
                   ticks, picks, lastDir, run, music_paused, leaderboard_file,
                   escaped>>

(* ------------------- end of an event batch, pause menu ----------------- *)

\* After the for loop over the events: the pause sub-loop when paused, else
\* the while condition.
EndBatch ==
    /\ pc = "LOOP"
    /\ paused \/ ~running
    /\ IF paused
       THEN /\ pc' = "PAUSE_MENU"
            /\ run' = -1
            /\ UNCHANGED <<running, paused, sessionVars, lastDir, escaped, dropped>>
       ELSE /\ pc' = "MENU"
            /\ Discard
    /\ UNCHANGED <<interval, slot, menuVars, ticks, picks, music_paused,
                   leaderboard_file>>

\* Resume (the button, or K_p) in the pause sub-loop; the while condition
\* is evaluated next.
PauseResume ==
    /\ pc = "PAUSE_MENU"
    /\ IF running
       THEN /\ pc' = "LOOP"
            /\ paused' = FALSE
            /\ run' = -1
            /\ UNCHANGED <<running, sessionVars, lastDir, escaped, dropped>>
       ELSE /\ pc' = "MENU"
            /\ Discard
    /\ music_paused' = FALSE
    /\ UNCHANGED <<interval, slot, menuVars, ticks, picks, leaderboard_file>>

\* Restart: return game_loop(difficulty, snake_skin_idx, fruit_skin_idx)
PauseRestart ==
    /\ pc = "PAUSE_MENU"
    /\ EnterGameLoop

\* Quit (the button, or K_ESCAPE) in the pause sub-loop.
PauseQuit ==
    /\ pc = "PAUSE_MENU"
    /\ pc' = "MENU"
    /\ Discard
    /\ UNCHANGED <<interval, slot, menuVars, ticks, picks, music_paused,
                   leaderboard_file>>

(* ----------------------------- leaderboard ---------------------------- *)

\* A name is a sequence of one-character strings.
Letters ==
    {"a", "b", "c", "d", "e", "f", "g", "h", "i", "j", "k", "l", "m",
     "n", "o", "p", "q", "r", "s", "t", "u", "v", "w", "x", "y", "z",
     "A", "B", "C", "D", "E", "F", "G", "H", "I", "J", "K", "L", "M",
     "N", "O", "P", "Q", "R", "S", "T", "U", "V", "W", "X", "Y", "Z"}
Digits == {"0", "1", "2", "3", "4", "5", "6", "7", "8", "9"}
Whitespace == {" ", "\t", "\n"}

\* re.sub(r"[^a-zA-Z0-9 ]", "", name)
ReSub(name) ==
    SelectSeq(name, LAMBDA c : c \in Letters \cup Digits \cup {" "})

RECURSIVE LStrip(_)
LStrip(n) ==
    IF n # <<>> /\ Head(n) \in Whitespace THEN LStrip(Tail(n)) ELSE n

RECURSIVE RStrip(_)
RStrip(n) ==
    IF n # <<>> /\ n[Len(n)] \in Whitespace THEN RStrip(Front(n)) ELSE n

\* Faulty variant: a strip that leaves the trailing whitespace.
StripLeft(n) == LStrip(n)

\* str.strip()
Strip(n) == LStrip(RStrip(n))

Anonymous == <<"A", "n", "o", "n", "y", "m", "o", "u", "s">>

\* The name save_score stores.
Sanitize(name) ==
    LET n == Strip(ReSub(name))
    IN  IF n = <<>> THEN Anonymous ELSE n

\* What LEADERBOARD_FILE holds when it does not parse as JSON.
Malformed == [parses |-> FALSE, json |-> <<>>]

\* json.dump(entries) as the file's content, and json.load of it.
BoardDump(entries) == [parses |-> TRUE, json |-> entries]
BoardParse(content) == content.json

\* load_leaderboard: the parsed list, [] when the file is absent or malformed.
load_leaderboard(file) ==
    IF file = <<>> THEN <<>>
    ELSE IF ~file[1].parses THEN <<>>
    ELSE BoardParse(file[1])

\* Faulty variant: a save that writes the whole list.
save_leaderboard_all(leaderboard) == <<BoardDump(leaderboard)>>

\* save_leaderboard: the file after json.dump(leaderboard[:5]).
save_leaderboard(leaderboard) ==
    <<BoardDump(SubSeq(leaderboard, 1, IF Len(leaderboard) < 5 THEN Len(leaderboard) ELSE 5))>>

\* save_leaderboard interrupted inside json.dump: open(.., "w") has emptied
\* the file and only a part of the text has reached it.
save_leaderboard_torn(leaderboard) == <<Malformed>>

\* Faulty variant: the new entry is put in front of the entries of its score.
InsertBeforeTies(sorted, e) ==
    LET k == Cardinality({ i \in 1..Len(sorted) : sorted[i].score > e.score })
    IN  SubSeq(sorted, 1, k) \o <<e>> \o SubSeq(sorted, k + 1, Len(sorted))

\* One step of a stable descending sort: e goes behind every entry whose
\* score is at least its own.
InsertDesc(sorted, e) ==
    LET k == Cardinality({ i \in 1..Len(sorted) : sorted[i].score >= e.score })
    IN  SubSeq(sorted, 1, k) \o <<e>> \o SubSeq(sorted, k + 1, Len(sorted))

\* leaderboard.sort(key=lambda x: x["score"], reverse=True): stable.
RECURSIVE SortDesc(_)
SortDesc(l) ==
    IF l = <<>> THEN <<>>
    ELSE InsertDesc(SortDesc(Front(l)), l[Len(l)])

\* Faulty variant: an entry that drops the score.
NewEntryNoScore(name, sc) == [name |-> name, score |-> 0]

\* {"name": name, "score": score}
NewEntry(name, sc) == [name |-> name, score |-> sc]

\* save_score: the leaderboard file after the call.
save_score(file, name, sc) ==
    save_leaderboard(
        SortDesc(Append(load_leaderboard(file), NewEntry(Sanitize(name), sc))))

\* Faulty variant: a reset that only deletes the file.
reset_leaderboard_deletes(file) == <<>>

\* reset_leaderboard: the file is removed if present, then save_leaderboard([]).
reset_leaderboard(file) == save_leaderboard(<<>>)

(* ------------------------------ game over ----------------------------- *)

\* input_name(score) returns the text typed, save_score(text, score) records
\* it, then main_menu().
SubmitName(text) ==
    /\ pc = "NAME_ENTRY"
    /\ pc' = "MENU"
    /\ leaderboard_file' = save_score(leaderboard_file, text, score)
    /\ Discard
    /\ UNCHANGED <<interval, slot, menuVars, ticks, picks, music_paused>>

\* The "reset" button of the main menu.
ResetLeaderboard ==
    /\ pc = "MENU"
    /\ leaderboard_file' = reset_leaderboard(leaderboard_file)
    /\ UNCHANGED <<pc, running, paused, sessionVars, interval, slot, menuVars,
                   ticks, picks, lastDir, run, music_paused, escaped, dropped>>

\* save_score called with a name and a score of the caller's choice.
RecordScore(name, sc) ==
    /\ pc = "MENU"
    /\ leaderboard_file' = save_score(leaderboard_file, name, sc)
    /\ UNCHANGED <<pc, running, paused, sessionVars, interval, slot, menuVars,
                   ticks, picks, lastDir, run, music_paused, escaped, dropped>>

\* save_score called while the write of the file is interrupted part-way.
RecordScoreInterrupted(name, sc) ==
    /\ pc = "MENU"
    /\ leaderboard_file' =
          save_leaderboard_torn(
              SortDesc(Append(load_leaderboard(leaderboard_file),
                              NewEntry(Sanitize(name), sc))))
    /\ UNCHANGED <<pc, running, paused, sessionVars, interval, slot, menuVars,
                   ticks, picks, lastDir, run, music_paused, escaped, dropped>>

(* ----------------------------- specification -------------------------- *)

\* The texts typed in the name box: nothing, or a short name.
TypedNames == {<<>>, <<"B", "o">>}
\* One player who always types the same name.
PlayerName == {<<"B", "o">>}

KeyInputs == {"K_UP", "K_DOWN", "K_s", "K_LEFT", "K_RIGHT", "K_l", "K_p", "K_ESCAPE"}

\* Every event of a session, with the skins left as the process starts them.
Next ==
    \/ StartGame
    \/ \E k \in KeyInputs : KeyDown(k)
    \/ QuitEvent
    \/ MoveEvent
    \/ EndBatch
    \/ PauseResume
    \/ PauseRestart
    \/ PauseQuit
    \/ \E text \in PlayerName : SubmitName(text)

Spec == Init /\ [][Next]_vars

\* Sessions played with skins selected in the menu, without pause or exit.
PlayKeys == {"K_UP", "K_DOWN", "K_s", "K_LEFT", "K_RIGHT", "K_l"}

NextSkins ==
    \/ StartGame
    \/ \E i \in 0..MaxSkinIdx : SelectSnakeSkin(i)
    \/ \E i \in 0..MaxSkinIdx : SelectFruitSkin(i)
    \/ \E k \in PlayKeys : KeyDown(k)
    \/ MoveEvent
    \/ \E text \in PlayerName : SubmitName(text)

SpecSkins == Init /\ [][NextSkins]_vars

\* Sessions steered with the arrow keys and followed over a longer run of
\* ticks, up to game over.
ArrowKeys == {"K_UP", "K_DOWN", "K_LEFT", "K_RIGHT"}

NextEffects ==
    \/ StartGame
    \/ \E k \in ArrowKeys : KeyDown(k)
    \/ MoveEventLong
    \/ \E text \in TypedNames : SubmitName(text)

SpecEffects == Init /\ [][NextEffects]_vars

\* Sessions that are paused, resumed, restarted and left, with the timer
\* firing during the pause.
PauseKeys == {"K_UP", "K_RIGHT", "K_s", "K_l", "K_p", "K_ESCAPE"}

NextPause ==
    \/ StartGame
    \/ \E k \in PauseKeys : KeyDown(k)
    \/ MoveEvent
    \/ DropMoveEvent
    \/ EndBatch
    \/ PauseResume
    \/ PauseRestart
    \/ PauseQuit

SpecPause == Init /\ [][NextPause]_vars

\* The leaderboard functions called from the menu, on every kind of file.
BoardAlphabet == {"A", "*", " "}
RawNames ==
    UNION { [1..n -> BoardAlphabet] : n \in 0..MaxNameLen }
      \cup {<<"A", "l", "*", "i", "c", "e", " ", "9", "9">>}

InitialBoards ==
    { <<>>, <<Malformed>>,
      <<BoardDump(<<NewEntry(<<"A">>, 1)>>)>>,
      <<BoardDump(<<NewEntry(<<"A">>, 2), NewEntry(<<"B">>, 2), NewEntry(<<"C">>, 0)>>)>> }

InitBoard ==
    /\ pc = "MENU"
    /\ screen = <<GridW * CELL_SIZE, GridH * CELL_SIZE>>
    /\ NoSession
    /\ interval = 0
    /\ slot = <<>>
    /\ current_snake_skin = 0 /\ current_fruit_skin = 0
    /\ ticks = 0
    /\ picks = 0
    /\ music_paused = FALSE
    /\ leaderboard_file \in InitialBoards

NextBoard ==
    \/ \E name \in RawNames : \E sc \in 0..MaxBoardScore : RecordScore(name, sc)
    \/ ResetLeaderboard

SpecBoard == InitBoard /\ [][NextBoard]_vars

\* The same calls, with writes of the leaderboard file that are interrupted.
NextTornBoard ==
    \/ \E name \in TypedNames : \E sc \in 0..MaxBoardScore : RecordScore(name, sc)
    \/ \E name \in TypedNames : \E sc \in 0..MaxBoardScore :
          RecordScoreInterrupted(name, sc)
    \/ ResetLeaderboard

SpecTornBoard == InitBoard /\ [][NextTornBoard]_vars

\* Sessions started over a SAVE_FILE left by an earlier process: a document
\* this program wrote, the same document without one of its keys or with a
\* number for the direction, an empty object, a text that is not JSON.
SampleDoc ==
    JsonDump([ snake |-> <<Add(start_pos, RIGHT), start_pos>>,
               direction |-> RIGHT,
               food_pos |-> Add(Add(start_pos, RIGHT), RIGHT),
               food_skin_idx |-> 0,
               obstacles |-> <<>>,
               powerups |-> <<>>,
               score |-> 1,
               powerup_active |-> None,
               powerup_timer |-> 0,
               snake_skin_idx |-> 0 ])

Without(doc, k) == [x \in DOMAIN doc \ {k} |-> doc[x]]
EmptyObject == [x \in {} |-> 0]

SavedFiles ==
    { <<>>, <<Garbled>>, <<SampleDoc>>, <<EmptyObject>>,
      <<Without(SampleDoc, "snake")>>,
      <<Without(SampleDoc, "score")>>,
      <<[SampleDoc EXCEPT !.direction = JNum(5)]>> }

InitLoad ==
    /\ pc = "MENU"
    /\ screen = <<GridW * CELL_SIZE, GridH * CELL_SIZE>>
    /\ NoSession
    /\ interval = 0
    /\ slot \in SavedFiles
    /\ current_snake_skin = 0 /\ current_fruit_skin = 0
    /\ ticks = 0
    /\ picks = 0
    /\ music_paused = FALSE
    /\ leaderboard_file = <<>>

LoadKeys == {"K_UP", "K_s", "K_l"}

NextLoad ==
    \/ StartGame
    \/ \E k \in LoadKeys : KeyDown(k)
    \/ SaveFails
    \/ MoveEvent

SpecLoad == InitLoad /\ [][NextLoad]_vars

\* Sessions on the wider display, steered to the left so that the score
\* reaches the second multiple of ObstacleEvery, with saves and loads.
InitWide ==
    /\ pc = "MENU"
    /\ screen = <<WideGridW * CELL_SIZE, GridH * CELL_SIZE>>
    /\ NoSession
    /\ interval = 0
    /\ slot = <<>>
    /\ current_snake_skin = 0 /\ current_fruit_skin = 0
    /\ ticks = 0
    /\ picks = 0
    /\ music_paused = FALSE
    /\ leaderboard_file = <<>>

ObstacleKeys == {"K_UP", "K_LEFT", "K_s", "K_l"}

NextObstacles ==
    \/ StartGame
    \/ \E k \in ObstacleKeys : KeyDown(k)
    \/ MoveEventLong

SpecObstacles == InitWide /\ [][NextObstacles]_vars

\* Sessions on the wider display that follow an effect from its collection
\* to its expiry, with saves and loads, over a SAVE_FILE that is absent or
\* was left without its "snake" key.
InitWideLoad ==
    /\ pc = "MENU"
    /\ screen = <<WideGridW * CELL_SIZE, GridH * CELL_SIZE>>
    /\ NoSession
    /\ interval = 0
    /\ slot \in { <<>>, <<Without(SampleDoc, "snake")>> }
    /\ current_snake_skin = 0 /\ current_fruit_skin = 0
    /\ ticks = 0
    /\ picks = 0
    /\ music_paused = FALSE
    /\ leaderboard_file = <<>>

SpecWideLoad == InitWideLoad /\ [][NextObstacles]_vars

(* ------------------------------- claims ------------------------------- *)

\* The session states of the game loop.
Running == pc = "LOOP" /\ running /\ ~paused
GameOver == pc = "NAME_ENTRY"
\* A step that handles one MOVE_EVENT.
IsTick == ticks' = ticks + 1
\* The head a tick moves to.
NewHead == Add(body[1], direction)

\* C1: a tick handled while RUNNING whose new head is off the board, on a
\* body segment or on an obstacle ends the session on that tick and changes
\* neither score, food, obstacles, on-field powerups, active effect nor timer.
C1_FatalTick ==
    [][ ( /\ IsTick /\ Running
          /\ \/ ~(NewHead[1] \in 0..(width - 1) /\ NewHead[2] \in 0..(height - 1))
             \/ NewHead \in Range(body)
             \/ NewHead \in Range(obstacles) )
        => ( /\ GameOver'
             /\ score' = score /\ food_pos' = food_pos
             /\ obstacles' = obstacles /\ powerups' = powerups
             /\ powerup_active' = powerup_active
             /\ powerup_timer' = powerup_timer ) ]_vars

\* C1 witness: a session ended by the head running into an obstacle.
C1_Witness ==
    GameOver /\ obstacles # <<>> /\ body[1] \in Range(obstacles)

\* C2 (as claimed): the direction a tick applies is never the reverse of the
\* direction the previous tick of the session applied, so a snake of length
\* >= 2 never dies by moving its head onto the segment behind it.
C2_NoReversal ==
    [][ IsTick =>
          /\ (lastDir # NoDir => direction # Neg(lastDir))
          /\ (Len(body) >= 2 /\ GameOver' => body'[1] # body[2]) ]_vars

\* C2 failing input reached: a snake of length >= 2 whose head was moved
\* back onto the segment behind it.
C2_Reversed ==
    GameOver /\ Len(body) >= 3 /\ body[1] = body[3]

\* The direction a movement key asks for.
Requested(k) ==
    IF k \in {"K_UP", "K_w"} THEN UP
    ELSE IF k \in {"K_DOWN", "K_s"} THEN DOWN
    ELSE IF k \in {"K_LEFT", "K_a"} THEN LEFT
    ELSE RIGHT

MovementKeys == {"K_UP", "K_w", "K_DOWN", "K_s", "K_LEFT", "K_a", "K_RIGHT", "K_d"}

\* C3: for each of the four directions, a direction request handled while
\* RUNNING leaves the direction as it is when it asks for the exact reverse,
\* and sets the direction to the requested one otherwise.
C3_DirectionRequest ==
    [][ \A k \in MovementKeys :
          (Running /\ direction \in Directions /\ KeyDown(k))
          => direction' = IF Requested(k) = Neg(direction) THEN direction
                          ELSE Requested(k) ]_vars

\* C3 witness: an orthogonal request was accepted after a tick to the right.
C3_Witness ==
    Running /\ lastDir = RIGHT /\ direction = UP

\* C4: a surviving tick whose new head is not on the food keeps the length
\* and moves the head one cell in the current direction, dropping the old
\* tail; k such ticks from a fresh session leave a snake of length 1 with its
\* head k cells to the right of the grid centre.
C4_PlainTick ==
    /\ [][ (IsTick /\ ~GameOver' /\ NewHead # food_pos)
           => /\ Len(body') = Len(body)
              /\ body'[1] = NewHead
              /\ body' = <<NewHead>> \o SubSeq(body, 1, Len(body) - 1) ]_vars
    /\ [](run >= 0 =>
            /\ Len(body) = 1
            /\ body[1] = <<(grid_width \div 2) * CELL_SIZE + run * CELL_SIZE,
                           (grid_height \div 2) * CELL_SIZE>>)

\* C4 witness: three plain ticks after a fresh start.
C4_Witness ==
    Running /\ run = 3 /\ Len(body) = 1

\* C5: a surviving tick whose new head is on the food grows the snake by one,
\* adds one to the score, and ends with the food on a cell that holds no
\* snake segment, no obstacle and no on-field powerup.
C5_EatTick ==
    [][ (IsTick /\ ~GameOver' /\ NewHead = food_pos)
        => /\ Len(body') = Len(body) + 1
           /\ score' = score + 1
           /\ food_pos' \notin Range(body')
           /\ food_pos' \notin Range(obstacles')
           /\ food_pos' \notin PositionsOf(powerups') ]_vars

\* C5 witness: two ticks, both eat ticks, the second one placing an obstacle
\* with a powerup on the field.
C5_Witness ==
    /\ Running /\ ticks = 2 /\ score = 2 /\ Len(body) = 3
    /\ obstacles # <<>> /\ powerups # <<>>

\* A step that handles the load key with a document in the save slot.
InSessionLoad == pc = "LOOP" /\ ~paused /\ slot # <<>> /\ KeyDown("K_l")
\* A step inside one session of the game loop.
InSession == pc = "LOOP" /\ pc' = "LOOP"

FreshSession ==
    /\ Running
    /\ body = <<start_pos>> /\ direction = RIGHT
    /\ score = 0 /\ obstacles = <<>> /\ powerups = <<>>
    /\ powerup_active = None
    /\ interval = 1000 \div FPS
    /\ snake_skin = current_snake_skin /\ food_skin = current_fruit_skin

\* C7 (as claimed): Restart in the pause menu leaves a fresh RUNNING session,
\* whatever the session was and whatever the save slot holds.
C7_RestartIsFresh ==
    [][ PauseRestart => FreshSession' ]_vars

\* C8 (as claimed): the S key handled while RUNNING leaves the snapshot of the
\* session in the save slot, whatever the snake's direction.
C8_SaveKeySaves ==
    [][ (Running /\ KeyDown("K_s"))
        => \/ slot' = <<JsonDump(save_game_state)>>
           \/ slot' = <<JsonDump(save_game_state)>>' ]_vars

\* The session fields a document gives back, as the game loop restores them.
Reloaded(doc) ==
    [ body |-> load_game_state(doc).body,
      direction |-> load_game_state(doc).direction,
      snake_skin |-> load_game_state(doc).snake_skin,
      food_pos |-> load_game_state(doc).food_pos,
      food_skin |-> load_game_state(doc).food_skin,
      obstacles |-> load_game_state(doc).obstacles,
      powerups |-> load_game_state(doc).powerups,
      score |-> doc.score,
      powerup_active |-> LoadedActive(doc),
      powerup_timer |-> doc.powerup_timer ]

\* The same fields of the session as it is.
Session ==
    [ body |-> body, direction |-> direction, snake_skin |-> snake_skin,
      food_pos |-> food_pos, food_skin |-> food_skin,
      obstacles |-> obstacles, powerups |-> powerups,
      score |-> score, powerup_active |-> powerup_active,
      powerup_timer |-> powerup_timer ]

\* C9: saving a RUNNING state and loading the document gives back the snake
\* body, direction and skin, the food position and skin, the obstacles, the
\* powerups, the score, the active effect and its remaining ticks; and a load
\* handled in a session leaves exactly the state the slot's document records.
C9_RoundTrip ==
    /\ [](Running => Reloaded(JsonDump(save_game_state)) = Session)
    /\ [][ InSessionLoad => Session' = Reloaded(slot[1]) ]_vars
    /\ [][ (InSessionLoad /\ slot = <<JsonDump(save_game_state)>>)
           => UNCHANGED sessionVars ]_vars

\* C9 witness: a running session with obstacles, a powerup on the field, an
\* active effect and a selected skin, equal to what its slot holds.
C9_Witness ==
    /\ Running /\ obstacles # <<>> /\ powerups # <<>>
    /\ powerup_active # None /\ powerup_timer > 0
    /\ snake_skin # food_skin
    /\ slot # <<>> /\ Reloaded(slot[1]) = Session

\* The interval each effect calls for.
IntervalOf(active) ==
    IF active = "speed_boost" THEN Max(50, 1000 \div (FPS + 10))
    ELSE IF active = "slow_down" THEN 1000 \div Max(1, FPS - 5)
    ELSE 1000 \div FPS

\* C10 (as claimed): in every RUNNING state the tick interval is the one the
\* active effect determines.
C10_IntervalMatchesEffect ==
    Running => interval = IntervalOf(powerup_active)

\* C11 (as claimed): every tick handled while RUNNING with an effect active
\* leaves the remaining-duration counter exactly one less than it was, and
\* when the counter reaches 0 the effect is cleared and the tick interval is
\* the base interval.
C11_TimerCountsDown ==
    [][ (IsTick /\ Running /\ powerup_active # None)
        => /\ powerup_timer' = powerup_timer - 1
           /\ (powerup_timer' = 0
                 => powerup_active' = None /\ interval' = 1000 \div FPS) ]_vars

\* C11 (amended): a surviving tick handled while RUNNING with an effect active
\* leaves the counter one less than it was, or, when the tick collects a
\* powerup, one less than that powerup's duration; the effect stays active
\* while the counter is positive, and when it reaches 0 the effect is cleared
\* and the tick interval is the base interval.  A fatal tick leaves the
\* counter and the effect as they were.
C11_TimerCountsDownUnlessCollected ==
    /\ [][ (IsTick /\ Running /\ powerup_active # None /\ ~GameOver')
           => /\ powerup_timer' =
                    (IF NewHead \in PositionsOf(powerups)
                     THEN PowerupDuration ELSE powerup_timer) - 1
              /\ IF powerup_timer' <= 0
                 THEN powerup_active' = None /\ interval' = 1000 \div FPS
                 ELSE powerup_active' # None ]_vars
    /\ [][ (IsTick /\ Running /\ GameOver')
           => powerup_timer' = powerup_timer /\ powerup_active' = powerup_active ]_vars

\* C11 witness: an effect that has counted down by one since its collection
\* and whose next tick, a surviving one, is still to be handled.
C11_Witness ==
    /\ Running /\ powerup_active # None
    /\ powerup_timer = PowerupDuration - 2 /\ powerup_timer >= 1
    /\ ticks < MaxEffectTicks
    /\ ~Fatal(Move(body, direction), obstacles)

\* C12: a surviving tick whose new head is on an on-field powerup removes
\* that powerup and no other, and makes its type the active effect with a
\* newly started counter, whatever was active before; the active effect is
\* always a single value, one of the powerup types or none.
C12_Collection ==
    /\ [][ (IsTick /\ ~GameOver' /\ NewHead \in PositionsOf(powerups))
           => LET hit == CHOOSE i \in 1..Len(powerups) : powerups[i].pos = NewHead
              IN  /\ powerup_active' = powerups[hit].type
                  /\ powerup_timer' = PowerupDuration - 1
                  /\ Len(powerups') = Len(powerups) - 1
                  /\ NewHead \notin PositionsOf(powerups')
                  /\ \A i \in 1..Len(powerups) :
                        powerups[i].pos # NewHead => powerups[i] \in Range(powerups') ]_vars
    /\ [](powerup_active \in PowerupTypes \cup {None})

\* C12 witness: an effect just collected with the other powerup still on the
\* field, that powerup being of the other type and under the next head.
C12_Witness ==
    /\ Running /\ powerup_active # None
    /\ powerup_timer = PowerupDuration - 1
    /\ Len(powerups) = 1
    /\ powerups[1].pos = NewHead
    /\ powerups[1].type # powerup_active
    /\ ticks < MaxEffectTicks

\* The session is paused: in the main loop with the flag set, or in the pause
\* sub-loop.
Paused == pc \in {"LOOP", "PAUSE_MENU"} /\ paused

\* C13: the pause toggle and every step taken while PAUSED, up to and
\* including the resume, leave the snake, the food, the obstacles, the
\* powerups, the score, the effect, its counter and the save slot as they
\* were and handle no tick; a MOVE_EVENT that fires during the pause is
\* consumed there, so no tick is made up for it at or after the resume.
C13_PauseFreezes ==
    /\ [][ (Running /\ KeyDown("K_p")) => UNCHANGED <<sessionVars, slot>> ]_vars
    /\ [][ (Paused /\ ~PauseRestart /\ pc' # "MENU")
           => (UNCHANGED <<sessionVars, slot, ticks>> /\ ~IsTick) ]_vars
    /\ [][ (dropped' # dropped /\ pc' # "MENU" /\ ~PauseRestart)
           => (Paused /\ UNCHANGED <<sessionVars, slot, ticks>>) ]_vars

\* C13 witness: a session with a snapshot in the slot, resumed after a pause
\* during which the move timer fired.
C13_Witness ==
    Running /\ dropped >= 1 /\ ticks >= 1 /\ slot # <<>>
    /\ Session # Reloaded(slot[1])

\* C14 (as claimed): the background music is paused exactly while a session
\* is PAUSED; in every RUNNING state, the sessions begun by Restart or by a
\* later Start included, it is not paused.
C14_AudioSuspendedOnlyWhilePaused ==
    /\ (Running => ~music_paused)
    /\ (Paused => music_paused)

\* C15 (as claimed): once the main loop or the pause sub-loop has handled
\* K_ESCAPE, the session handles no further tick, does not reach name entry
\* and records no score, whatever follows K_ESCAPE in the event batch.
C15_EscapeExits ==
    [][ escaped => (~IsTick /\ ~GameOver' /\ UNCHANGED leaderboard_file) ]_vars

\* C15 failing input reached: name entry entered by a session that had
\* handled K_ESCAPE.
C15_ScoredAfterEscape ==
    GameOver /\ escaped

\* A list with e put in at position i, and a list cut to its first five.
InsertAt(l, i, e) == SubSeq(l, 1, i - 1) \o <<e>> \o SubSeq(l, i, Len(l))
FirstFive(l) == SubSeq(l, 1, IF Len(l) < 5 THEN Len(l) ELSE 5)

\* C16: the score name entry is given is the score the session held at its
\* fatal tick, and the one step that leaves name entry puts exactly one entry
\* with that score into the leaderboard (cut to five entries) and returns to
\* the main menu.
C16_ScoreRecordedOnce ==
    /\ [][ (IsTick /\ GameOver') => score' = score ]_vars
    /\ [][ GameOver =>
             LET old == load_leaderboard(leaderboard_file)
                 new == load_leaderboard(leaderboard_file')
             IN  /\ pc' = "MENU"
                 /\ \E i \in 1..(Len(old) + 1) :
                    \E t \in TypedNames :
                       new = FirstFive(InsertAt(old, i,
                                 [name |-> Sanitize(t), score |-> score])) ]_vars

\* C16 witness: back in the menu with two sessions recorded, one that scored
\* and one entered without a name.
C16_Witness ==
    /\ pc = "MENU"
    /\ Len(load_leaderboard(leaderboard_file)) >= 2
    /\ \E i, j \in 1..Len(load_leaderboard(leaderboard_file)) :
          /\ load_leaderboard(leaderboard_file)[i].score >= 1
          /\ load_leaderboard(leaderboard_file)[j].name = Anonymous

\* The leaderboard as load_leaderboard returns it.
Board == load_leaderboard(leaderboard_file)
\* The entries save_score can be asked to add.
BoardEntries ==
    { [name |-> Sanitize(r), score |-> sc] : r \in RawNames, sc \in 0..MaxBoardScore }

\* C17: whatever save_score and reset_leaderboard calls were made, the
\* leaderboard loaded from the file has at most 5 entries in descending order
\* of score, and a list written by save_leaderboard is read back by
\* load_leaderboard as its first 5 entries.
C17_BoardSortedAndShort ==
    /\ Len(Board) <= 5
    /\ \A i, j \in 1..Len(Board) : i < j => Board[i].score >= Board[j].score
    /\ \A e \in BoardEntries :
          load_leaderboard(save_leaderboard(Append(Board, e)))
              = FirstFive(Append(Board, e))

\* C17 witness: a full leaderboard with a highest and a lowest score, written
\* by the program.
C17_Witness ==
    /\ Len(Board) = 5 /\ Board[1].score > Board[5].score
    /\ \E i \in 1..5 : Board[i].name = Anonymous

\* C18: save_score(name, s) leaves the first 5 entries of the loaded list
\* with the new entry put behind every entry whose score is at least s: it
\* ranks after the entries of its own score, and it is not retained when 5
\* entries already have scores >= s.
C18_StableInsert ==
    [][ \A r \in RawNames : \A sc \in 0..MaxBoardScore :
          RecordScore(r, sc) =>
            LET old == Board
                new == Board'
                k == Cardinality({ i \in 1..Len(old) : old[i].score >= sc })
            IN  /\ new = FirstFive(InsertAt(old, k + 1,
                                             [name |-> Sanitize(r), score |-> sc]))
                /\ (k >= 5 => new = old)
                /\ \A i \in 1..Len(old) :
                      (old[i].score = sc /\ i <= Len(new)) => new[i] = old[i] ]_vars

\* C18 witness: a full leaderboard holding two entries of one score under
\* different names.
C18_Witness ==
    /\ Len(Board) = 5
    /\ \E i \in 1..4 : /\ Board[i].score = Board[i + 1].score
                        /\ Board[i].name # Board[i + 1].name

\* The name the claim describes: the characters of r inside [A-Za-z0-9 ],
\* from the first to the last of them that is not a space.
CleanName(r) ==
    LET kept == SelectSeq(r, LAMBDA c : c \in Letters \cup Digits \cup {" "})
        solid == { i \in 1..Len(kept) : kept[i] # " " }
    IN  IF solid = {} THEN <<"A", "n", "o", "n", "y", "m", "o", "u", "s">>
        ELSE SubSeq(kept, CHOOSE i \in solid : \A j \in solid : i <= j,
                          CHOOSE i \in solid : \A j \in solid : i >= j)

\* C19: the name save_score stores is the input without the characters
\* outside [A-Za-z0-9 ] and without leading and trailing spaces, "Al*ice 99"
\* being stored as "Alice 99"; an input that leaves nothing is stored as
\* "Anonymous".
C19_StoredName ==
    /\ [][ \A r \in RawNames : \A sc \in 0..MaxBoardScore :
             (RecordScore(r, sc) /\ Board' # Board)
             => [name |-> CleanName(r), score |-> sc] \in Range(Board') ]_vars
    /\ [](Sanitize(<<"A", "l", "*", "i", "c", "e", " ", "9", "9">>)
             = <<"A", "l", "i", "c", "e", " ", "9", "9">>)
    /\ [](\A r \in {<<>>, <<"*">>, <<" ">>, <<"*", " ">>} :
             Sanitize(r) = <<"A", "n", "o", "n", "y", "m", "o", "u", "s">>)

\* C19 witness: a leaderboard holding the sanitized example, a two-letter
\* name and the placeholder.
C19_Witness ==
    /\ [name |-> <<"A", "l", "i", "c", "e", " ", "9", "9">>, score |-> 1] \in Range(Board)
    /\ \E i \in 1..Len(Board) : Board[i].name = <<"A", "n", "o", "n", "y", "m", "o", "u", "s">>
    /\ \E i \in 1..Len(Board) : Board[i].name = <<"A", "A">>

\* C20: after reset_leaderboard, whatever the file was (absent, malformed or
\* a list of entries), the file exists, parses, and loads as the empty list.
C20_ResetLeavesEmptyFile ==
    [][ ResetLeaderboard
        => /\ leaderboard_file' # <<>>
           /\ leaderboard_file'[1].parses
           /\ load_leaderboard(leaderboard_file') = <<>> ]_vars

\* C20 witness: a file that exists, parses and holds no entry.
C20_Witness ==
    /\ leaderboard_file # <<>>
    /\ leaderboard_file[1].parses
    /\ leaderboard_file[1].json = <<>>

\* C21: a load input handled while RUNNING with the save slot absent leaves
\* the whole session unchanged; with a slot that exists but fails to parse it
\* deletes the file, so that the slot is absent afterwards, leaves the
\* session unchanged and keeps it RUNNING.
C21_LoadOfNothing ==
    [][ (Running /\ KeyDown("K_l") /\ (slot = <<>> \/ ~Parses(slot[1])))
        => /\ slot' = <<>>
           /\ Running'
           /\ UNCHANGED <<sessionVars, interval>> ]_vars

\* C21 witness: a session restored from a document, after a load input found
\* the file a failed save had left and removed it.
C21_Witness ==
    Running /\ slot = <<>> /\ direction = UP /\ score > 0 /\ ticks = 0

\* A document that parses without being a snapshot: a key that
\* load_game_state indexes is missing, or a position is not an array.
InvalidSnapshot(doc) ==
    /\ Parses(doc)
    /\ \/ \E k \in {"snake", "direction", "food_pos", "obstacles", "powerups"} :
             k \notin DOMAIN doc
       \/ "arr" \notin DOMAIN doc.direction
       \/ "arr" \notin DOMAIN doc.food_pos

\* The clean new session the claim describes.
CleanSession ==
    /\ Running
    /\ body = <<start_pos>> /\ direction = RIGHT
    /\ score = 0 /\ obstacles = <<>> /\ powerups = <<>>
    /\ powerup_active = None /\ powerup_timer = 0
    /\ interval = 1000 \div FPS

\* C22 (as claimed): a load, at session start or in-session, of a snapshot
\* that parses but lacks a required field or has a field of the wrong shape
\* leaves a clean new RUNNING session: a snake of length 1 at the grid centre
\* heading right, score 0, no obstacles, no powerups, no effect, timer 0 and
\* the base interval.
C22_InvalidLoadIsClean ==
    [][ ( /\ slot # <<>> /\ InvalidSnapshot(slot[1])
          /\ (StartGame \/ (Running /\ KeyDown("K_l"))) )
        => CleanSession' ]_vars

\* C22 failing input reached: a session that has scored while the slot holds
\* the empty object, which a load input leaves as it is.
C22_ScoredOverEmptyObject ==
    Running /\ slot = <<EmptyObject>> /\ score > 0

\* The cells taken by the snake, the obstacles and the on-field powerups.
Taken == Range(body) \cup Range(obstacles) \cup PositionsOf(powerups)

\* C23 (as claimed): whenever the food is placed or re-placed, at the start
\* of a session included, its position is on no snake segment, no obstacle
\* and no on-field powerup.
C23_FoodPlacedOnFreeCell ==
    [][ (StartGame \/ PauseRestart \/ (InSession /\ food_pos' # food_pos))
        => food_pos' \notin Taken' ]_vars

\* C23 failing input reached: a new session whose food was drawn onto the
\* snake's only segment.
C23_FoodUnderSnake ==
    Running /\ run = 0 /\ slot = <<>> /\ food_pos = body[1]

\* The cap on the number of obstacles, from the number of cells of the grid.
ObstacleCap ==
    Max(MinObstacleCap, ((width \div CELL_SIZE) * (height \div CELL_SIZE) * 5) \div 1000)

C25_ObstacleGrowth ==
    [][ /\ (IsTick /\ obstacles' # obstacles)
           => /\ NewHead = food_pos /\ score' = score + 1
              /\ score' > 0 /\ score' % ObstacleEvery = 0
              /\ Len(obstacles) < ObstacleCap
              /\ \E c \in random_position :
                    /\ obstacles' = Append(obstacles, c)
                    /\ c \notin Range(body') \cup {food_pos'}
                                 \cup PositionsOf(powerups') \cup Range(obstacles)
        /\ \A k \in ObstacleKeys \ {"K_l"} :
              KeyDown(k) => obstacles' = obstacles ]_vars

\* C25 witness: the first obstacle, added by the eat tick that took the
\* score to the period.
C25_Witness ==
    /\ Running /\ ticks = ObstacleEvery /\ score = ObstacleEvery
    /\ Len(obstacles) = 1
    /\ obstacles[1] \notin Range(body) \cup {food_pos} \cup PositionsOf(powerups)

\* A RUNNING state whose next tick is an eat tick.
EatTickAhead ==
    /\ Running
    /\ ~Fatal(Move(body, direction), obstacles)
    /\ NewHead = food_pos

\* C26 (as claimed): on every eat tick reachable in a session the food
\* relocation ends with the food on a free cell: whatever the powerup step
\* adds, a cell outside the grown snake, the obstacles and the powerups is
\* left for the respawn loop to draw.
C26_FoodRespawnEnds ==
    EatTickAhead
    => \A pw \in PowerupSpawns(Move(body, direction), food_pos, obstacles, powerups) :
          random_position \ ( Range(Move(body, direction)) \cup Range(obstacles)
                                \cup PositionsOf(powerups \o pw) ) # {}

\* C26 failing input reached: the food is on the last cell that the snake,
\* the obstacles and the powerups leave, and the snake is about to eat it.
C26_LastCellEaten ==
    /\ EatTickAhead
    /\ random_position \subseteq
          Range(Move(body, direction)) \cup Range(obstacles) \cup PositionsOf(powerups)

\* The interval the claim gives for an active effect at speed n.
ClaimedInterval(effect, n) ==
    IF effect = "speed_boost" THEN (IF 1000 \div (n + 10) > 50 THEN 1000 \div (n + 10) ELSE 50)
    ELSE IF effect = "slow_down" THEN 1000 \div (IF n - 5 > 1 THEN n - 5 ELSE 1)
    ELSE 1000 \div n

C28_SnakeWellFormed ==
    Running =>
      /\ Len(body) >= 1
      /\ \A i, j \in 1..Len(body) : i # j => body[i] # body[j]
      /\ \A i \in 1..Len(body) :
            /\ body[i][1] % CELL_SIZE = 0 /\ body[i][2] % CELL_SIZE = 0
            /\ 0 <= body[i][1] /\ body[i][1] < width
            /\ 0 <= body[i][2] /\ body[i][2] < height
      /\ direction \in { <<CELL_SIZE, 0>>, <<0 - CELL_SIZE, 0>>,
                          <<0, CELL_SIZE>>, <<0, 0 - CELL_SIZE>> }

\* C28 witness: a snake of three segments that has turned after its ticks
\* and was restored from the save slot.
C28_Witness ==
    /\ Running /\ Len(body) = 3 /\ direction = UP
    /\ slot # <<>> /\ Len(slot[1].snake) = 3 /\ lastDir = NoDir /\ ticks = 2

\* C29 (as claimed): a write of the leaderboard that is interrupted part-way
\* never leaves a file that fails to parse: the file holds the complete old
\* content or the complete new content.
C29_WriteIsAtomic ==
    [][ \A name \in TypedNames : \A sc \in 0..MaxBoardScore :
          RecordScoreInterrupted(name, sc)
          => \/ leaderboard_file' = leaderboard_file
             \/ leaderboard_file' = save_score(leaderboard_file, name, sc) ]_vars

\* C30: in every RUNNING state between ticks, across ticks, saves, in-session
\* loads of slots written by this program and restarts, the length of the
\* snake is the score plus one.
C30_LengthIsScorePlusOne ==
    Running => Len(body) = score + 1

\* C30 witness: a session restored from a slot that was saved after two eats.
C30_Witness ==
    /\ Running /\ score = 2 /\ Len(body) = 3
    /\ slot # <<>> /\ slot[1].score = 2 /\ lastDir = NoDir

\* C31: in every RUNNING state between ticks no effect is active if and only
\* if the remaining-duration counter is 0, and while an effect is active the
\* counter is between 1 and the duration of the effect minus 1; ticks,
\* collection, expiry, save, load and failed load preserve this.
C31_EffectIffTimer ==
    Running =>
      /\ (powerup_active = None) <=> (powerup_timer = 0)
      /\ powerup_active # None
           => /\ 1 <= powerup_timer
              /\ powerup_timer <= POWERUP_TYPES(powerup_active).duration - 1

\* C31 witness: a session restored from a slot that was saved while an
\* effect had one tick left.
C31_Witness ==
    /\ Running /\ powerup_active \in PowerupTypes /\ powerup_timer = 1
    /\ lastDir = NoDir
    /\ slot # <<>> /\ Parses(slot[1]) /\ "powerup_timer" \in DOMAIN slot[1]
    /\ slot[1].powerup_timer = 1

\* C32: in every RUNNING state between ticks no obstacle and no on-field
\* powerup shares a cell with a snake segment, and the food, the obstacles
\* and the on-field powerups are on pairwise distinct cells, across ticks,
\* saves, loads of slots written by this program and restarts.
C32_NoOverlap ==
    Running =>
      /\ Range(obstacles) \cap Range(body) = {}
      /\ PositionsOf(powerups) \cap Range(body) = {}
      /\ food_pos \notin Range(obstacles) \cup PositionsOf(powerups)
      /\ Range(obstacles) \cap PositionsOf(powerups) = {}
      /\ \A i, j \in 1..Len(obstacles) : i # j => obstacles[i] # obstacles[j]
      /\ \A i, j \in 1..Len(powerups) : i # j => powerups[i].pos # powerups[j].pos

\* C32 witness: a snake of three segments among an obstacle and two
\* powerups, in a session restored from the save slot.
C32_Witness ==
    /\ Running /\ Len(body) = 3
    /\ Len(obstacles) = 1 /\ Len(powerups) = 2
    /\ lastDir = NoDir /\ slot # <<>> /\ Len(slot[1].powerups) = 2
====
